---------------------------- MODULE Spec2Model ----------------------------
(***************************************************************************)
(* pytest-dymo-label: the label printing plugin (pytest_dymo_label/        *)
(* plugin.py).  The hooks pytest_configure, pytest_sessionstart,           *)
(* pytest_runtest_makereport and pytest_sessionfinish are modelled as a    *)
(* state machine; pytest_sessionfinish (the run pipeline) is split into    *)
(* the steps between which the outside world is observable: the            *)
(* GetPrinters request, the template read, the two clock reads and the     *)
(* PrintLabel request.                                                     *)
(*                                                                         *)
(* Text (str) is a sequence of symbols: a tag, a word, or one of the       *)
(* characters "[", "]", "<", "&" and newline on its own, so that           *)
(* str.replace, the XML parser and the XML serializer work on text as the  *)
(* code's do.                                                              *)
(***************************************************************************)
EXTENDS Integers, Sequences, FiniteSets, TLC

(***************************************************************************)
(* Bounds of the model.                                                    *)
(***************************************************************************)
\* Longest list of <LabelWriterPrinter> elements a GetPrinters response holds.
MaxPrinters == 2
\* Number of calendar days the clock can show while the session runs.
MaxDay == 2
\* Failing tests of one session.
MaxFailures == 2
\* pytest-xdist worker processes of one session.
MaxWorkers == 2
\* Records other plugins of the session append to session.plugin_errors.
MaxOtherErrors == 1

(***************************************************************************)
(* Module constants of plugin.py.                                          *)
(***************************************************************************)
LABEL_TEMPLATE_FILENAME == "manufacturing_label_30334.dymo"
DYMO_PRINT_LABEL == "DYMO/DLS/Printing/PrintLabel"
DYMO_GET_PRINTERS == "DYMO/DLS/Printing/GetPrinters"
printer_name == "DYMO LabelWriter 4XL"
plugin_name == "pytest_dymo_label.plugin"

\* Python's None.
None == "<None>"

(***************************************************************************)
(* Text: str.replace                                                       *)
(***************************************************************************)
\* s[i .. i+Len(old)-1] = old
MatchAt(s, old, i) ==
    /\ i + Len(old) - 1 <= Len(s)
    /\ \A j \in 1..Len(old) : s[i + j - 1] = old[j]

Min(S) == CHOOSE x \in S : \A y \in S : x <= y
Max(S) == CHOOSE x \in S : \A y \in S : x >= y

\* The scan of str.replace from index i: the leftmost occurrence at or after
\* i is replaced and the scan goes on behind it.
RECURSIVE ReplaceFrom(_, _, _, _)
ReplaceFrom(s, old, new, i) ==
    LET M == {j \in i..Len(s) : MatchAt(s, old, j)} IN
    IF M = {} THEN SubSeq(s, i, Len(s))
    ELSE LET j == Min(M) IN
         SubSeq(s, i, j - 1) \o new \o ReplaceFrom(s, old, new, j + Len(old))

\* str.replace(old, new): every non-overlapping occurrence, left to right;
\* old is never empty here.
str_replace(s, old, new) == ReplaceFrom(s, old, new, 1)

\* list.count(x)
Count(seq, x) == Cardinality({i \in 1..Len(seq) : seq[i] = x})

\* The placeholder token '[name]' as text.
Tok(name) == <<"[", name, "]">>

\* The concatenation of pieces[lo..hi].
RECURSIVE Flatten(_, _, _)
Flatten(pieces, lo, hi) ==
    IF lo > hi THEN <<>>
    ELSE IF lo = hi THEN pieces[lo]
    ELSE LET mid == (lo + hi) \div 2 IN
         Flatten(pieces, lo, mid) \o Flatten(pieces, mid + 1, hi)

(***************************************************************************)
(* Markup: lxml.etree.fromstring / xpath / elem.text / etree.tostring      *)
(*                                                                         *)
(* In text a start tag, an end tag, an empty-element tag and the XML       *)
(* declaration are one symbol each; a "<" or "&" symbol is that character  *)
(* on its own, which is not markup.                                        *)
(*                                                                         *)
(* A parsed document is the sequence of its events in document order:      *)
(* [k |-> "open", v |-> tag], [k |-> "close", v |-> tag] and               *)
(* [k |-> "text", v |-> character data], character data unescaped.         *)
(***************************************************************************)
ElemNames == {"DieCutLabel", "String", "QRCodeObject", "Data", "DataString",
              "TextDataHolder", "Value"}

StartTag(n) == "<" \o n \o ">"
EndTag(n)   == "</" \o n \o ">"
EmptyTag(n) == "<" \o n \o "/>"
XmlDecl     == "<?xml version=\"1.0\" encoding=\"utf-8\"?>"

StartTags == {StartTag(n) : n \in ElemNames}
EndTags   == {EndTag(n) : n \in ElemNames}
EmptyTags == {EmptyTag(n) : n \in ElemNames}

\* The element name of a tag.
TagName(c) ==
    CHOOSE n \in ElemNames : c \in {StartTag(n), EndTag(n), EmptyTag(n)}

XMLSyntaxError == "XMLSyntaxError"

\* The parser's failure: raise etree.XMLSyntaxError.
ParseFailure == <<[k |-> "error", v |-> XMLSyntaxError]>>

IsParseFailure(d) == d # <<>> /\ d[1].k = "error"

Open(n)  == [k |-> "open",  v |-> n]
Close(n) == [k |-> "close", v |-> n]
Text(c)  == [k |-> "text",  v |-> c]

\* Character data: entity references are resolved.
Unescape(c) == CASE c = "&lt;"  -> "<"
                 [] c = "&gt;"  -> ">"
                 [] c = "&amp;" -> "&"
                 [] OTHER       -> c

\* The events of one symbol.
Events(c) ==
    CASE c \in StartTags -> <<Open(TagName(c))>>
      [] c \in EndTags   -> <<Close(TagName(c))>>
      [] c \in EmptyTags -> <<Open(TagName(c)), Close(TagName(c))>>
      [] c = XmlDecl     -> <<>>
      [] OTHER           -> <<Text(Unescape(c))>>

\* Number of elements open in front of event i.
Depth(dom, i) ==
    Cardinality({j \in 1..(i - 1) : dom[j].k = "open"})
    - Cardinality({j \in 1..(i - 1) : dom[j].k = "close"})

\* The start tag in front of event i that is open at depth d there (0 if
\* there is none): the element at level d + 1 of the stack of open elements.
OpenAt(dom, i, d) ==
    LET S == {j \in 1..(i - 1) : dom[j].k = "open" /\ Depth(dom, j) = d}
    IN  IF S = {} THEN 0 ELSE Max(S)

\* Well-formedness: no bare "<" or "&", a declaration in front only, tags
\* that nest and match, character data inside the root element only, and
\* one root element.
WellFormed(s, dom) ==
    /\ \A i \in 1..Len(s) :
          /\ s[i] \notin {"<", "&"}
          /\ s[i] = XmlDecl => i = 1
    /\ \A i \in 1..Len(dom) :
          /\ dom[i].k = "text" => Depth(dom, i) >= 1
          /\ dom[i].k = "close" =>
                /\ Depth(dom, i) >= 1
                /\ dom[OpenAt(dom, i, Depth(dom, i) - 1)].v = dom[i].v
    /\ Depth(dom, Len(dom) + 1) = 0
    /\ Cardinality({i \in 1..Len(dom) :
                       dom[i].k = "open" /\ Depth(dom, i) = 0}) = 1

\* etree.fromstring(text): the parsed document, or ParseFailure.
fromstring(s) ==
    LET dom == Flatten([i \in 1..Len(s) |-> Events(s[i])], 1, Len(s))
    IN  IF WellFormed(s, dom) THEN dom ELSE ParseFailure

\* The start tag at event i is matched by //QRCodeObject/Data/DataString or
\* by //QRCodeObject/TextDataHolder/Value.
OnQRPath(dom, i) ==
    LET d == Depth(dom, i) IN
    /\ dom[i].k = "open"
    /\ d >= 2
    /\ LET parent == dom[OpenAt(dom, i, d - 1)].v
           grand  == dom[OpenAt(dom, i, d - 2)].v
       IN  /\ grand = "QRCodeObject"
           /\ \/ parent = "Data" /\ dom[i].v = "DataString"
              \/ parent = "TextDataHolder" /\ dom[i].v = "Value"

\* Event i is character data of elem.text of the element whose start tag is
\* event j: nothing but character data lies between the two.
InTextOf(dom, i, j) ==
    /\ j < i
    /\ dom[i].k = "text"
    /\ \A m \in (j + 1)..(i - 1) : dom[m].k = "text"

TextEvents(txt) == [j \in 1..Len(txt) |-> Text(txt[j])]

\* The loop over data_string_elements only.
SetQRText_DataStringOnly(dom, txt) ==
    LET QR == {j \in 1..Len(dom) : OnQRPath(dom, j) /\ dom[j].v = "DataString"}
        piece(i) ==
            IF i \in QR THEN <<dom[i]>> \o TextEvents(txt)
            ELSE IF \E j \in QR : InTextOf(dom, i, j) THEN <<>>
            ELSE <<dom[i]>>
    IN  Flatten([i \in 1..Len(dom) |-> piece(i)], 1, Len(dom))

\* for elem in data_string_elements + value_elements: elem.text = qr_content
\* elem.text, the character data between the start tag and the first child
\* (or the end tag), is replaced wholesale.
SetQRText(dom, txt) ==
    LET QR == {j \in 1..Len(dom) : OnQRPath(dom, j)}
        piece(i) ==
            IF i \in QR THEN <<dom[i]>> \o TextEvents(txt)
            ELSE IF \E j \in QR : InTextOf(dom, i, j) THEN <<>>
            ELSE <<dom[i]>>
    IN  Flatten([i \in 1..Len(dom) |-> piece(i)], 1, Len(dom))

\* Character data as written by the serializer.
Escape(c) == CASE c = "<" -> "&lt;"
               [] c = ">" -> "&gt;"
               [] c = "&" -> "&amp;"
               [] OTHER   -> c

\* etree.tostring(root, encoding='utf-8').decode('utf-8'): the root element,
\* no XML declaration, an element without content written as <tag/>.
tostring(dom) ==
    LET piece(i) ==
            LET e == dom[i] IN
            CASE e.k = "open" ->
                   IF i < Len(dom) /\ dom[i + 1].k = "close"
                   THEN <<EmptyTag(e.v)>> ELSE <<StartTag(e.v)>>
              [] e.k = "close" ->
                   IF i > 1 /\ dom[i - 1].k = "open"
                   THEN <<>> ELSE <<EndTag(e.v)>>
              [] OTHER -> <<Escape(e.v)>>
    IN  Flatten([i \in 1..Len(dom) |-> piece(i)], 1, Len(dom))

(***************************************************************************)
(* Inputs                                                                  *)
(***************************************************************************)
\* The calendar day d as date.isoformat() text.
isoformat(d) == <<"2026-11-0" \o ToString(d)>>

non_test_flags == {"collectonly", "version", "help", "fixtures", "markers",
                   "trace_config", "doctest_mods", "showfixtures", "runxfail"}

\* config.option: the set of command line flags that are set.
Options == {{"verbose"}, {"verbose", "collectonly"}}

\* item.name of the collected tests.
TestNames == {"test_boot", "test_net"}

\* What the tests of the session store in the label_data fixture.
LabelValues ==
    [serial_number    |-> {<<"SN1">>, Tok("TestStatus"), <<"<">>},
     model_number     |-> {<<"JAVS-1">>},
     firmware_version |-> {<<"1.0.3">>}]

MetadataKeys == {"serial_number", "model_number", "firmware_version"}

\* pytest's exit codes: 0 all passed, 1 some failed, 2 interrupted.
ExitCodes == {0, 1, 2}

Elem(n, body) == <<StartTag(n)>> \o body \o <<EndTag(n)>>

QRBlock(old) ==
    Elem("QRCodeObject",
         Elem("Data", Elem("DataString", old))
         \o Elem("TextDataHolder", Elem("Value", old)))

\* The packaged label: every placeholder, one QR code object.
TemplateFull ==
    <<XmlDecl>> \o
    Elem("DieCutLabel",
         Elem("String", Tok("SerialNumber"))
         \o Elem("String", Tok("ModelNumber"))
         \o Elem("String", Tok("FirmwareVersion"))
         \o Elem("String", Tok("ManufacturingDate"))
         \o Elem("String", Tok("TestStatus"))
         \o Elem("String", Tok("BarcodeSN"))
         \o QRBlock(<<"QR">>))

\* No QR code object, a placeholder that occurs twice, an escaped character
\* and an element without content.
TemplateNoQR ==
    Elem("DieCutLabel",
         Elem("String", Tok("SerialNumber") \o <<"&amp;">> \o Tok("SerialNumber"))
         \o Elem("String", Tok("TestStatus"))
         \o <<EmptyTag("String")>>
         \o Elem("DataString", <<"keep">>))

\* Two QR code objects, no SerialNumber placeholder, and DataString / Value
\* elements that are not on the QR path.
TemplateTwoQR ==
    Elem("DieCutLabel",
         Elem("String", Tok("ManufacturingDate"))
         \o QRBlock(<<"old", "text">>)
         \o QRBlock(<<>>)
         \o Elem("Data", Elem("DataString", <<"keep">>))
         \o Elem("Value", <<"keep">>))

\* Not well formed: the root element is never closed.
TemplateMalformed ==
    <<StartTag("DieCutLabel")>> \o Elem("String", Tok("ModelNumber"))

Templates == {TemplateFull, TemplateNoQR, TemplateTwoQR, TemplateMalformed}

(***************************************************************************)
(* Exceptions.  An exception is named by its class; a handler is the set   *)
(* of classes its except clauses catch.                                    *)
(***************************************************************************)
NoException == "none"

\* requests.exceptions.RequestException and the subclasses raised by
\* requests.get / requests.post (transport) and raise_for_status (status).
RequestException == {"ConnectionError", "HTTPError"}

\* What a lookup can raise: requests.get, raise_for_status, etree.fromstring.
GetPrintersRaises == RequestException \cup {XMLSyntaxError}

\* What reading the packaged template can raise.
ReadTextRaises == {"FileNotFoundError", "PermissionError", "UnicodeDecodeError"}

\* What the submission can raise: requests.post, raise_for_status.
PostRaises == RequestException

\* Every exception class of the model (Python's Exception).
Exception == GetPrintersRaises \cup ReadTextRaises \cup PostRaises

\* get_printers: except RequestException / except etree.XMLSyntaxError
GetPrintersHandlers_NoXml == RequestException

GetPrintersHandlers == RequestException \cup {XMLSyntaxError}

\* read_text: except FileNotFoundError / except Exception
ReadTextHandlers_OnlyNotFound == {"FileNotFoundError"}

ReadTextHandlers == {"FileNotFoundError"} \cup Exception

\* etree.fromstring(label_xml): except etree.XMLSyntaxError
ParseHandlers == {XMLSyntaxError}

\* requests.post: except requests.exceptions.RequestException
PostHandlers_None == {}

PostHandlers == RequestException

(***************************************************************************)
(* Printer Directory Client                                                *)
(***************************************************************************)
\* Text of a <Name> child: the target printer, the same name in another
\* case, another printer, and no <Name> child at all (findtext gives None).
PrinterNames == {printer_name, "dymo labelwriter 4xl", "DYMO LabelWriter 450",
                 None}

\* Text of an <IsConnected> child.
ConnectedTexts == {"True", "False", "true"}

\* A <LabelWriterPrinter> element of the GetPrinters response.
PrinterElems == [Name : PrinterNames, IsConnected : ConnectedTexts]

SeqsUpTo(S, n) == UNION {[1..m -> S] : m \in 0..n}

\* The GetPrinters responses that parse.
Responses == SeqsUpTo(PrinterElems, MaxPrinters)

\* A few responses, for the session runs.
SessionResponses ==
    {<<>>,
     <<[Name |-> printer_name, IsConnected |-> "True"]>>,
     <<[Name |-> printer_name, IsConnected |-> "False"]>>,
     <<[Name |-> "DYMO LabelWriter 450", IsConnected |-> "True"],
       [Name |-> printer_name, IsConnected |-> "True"]>>}

\* terminalreporter.stats as the numbers of passed and failed reports.
Stats == {[passed |-> 0, failed |-> 0], [passed |-> 1, failed |-> 0],
          [passed |-> 0, failed |-> 1]}

\* is_connected = printer.findtext('IsConnected') == 'True'
ParsePrinter(p) == [Name |-> p.Name, IsConnected |-> (p.IsConnected = "True")]

\* for printer in root.findall('.//LabelWriterPrinter'): printers.append(...)
ParsePrinters(resp) == [i \in 1..Len(resp) |-> ParsePrinter(resp[i])]

\* get_printers: the parsed records, or [] when the lookup raised an
\* exception that one of its except clauses catches.
get_printers_result(exc, resp) ==
    IF exc = NoException THEN ParsePrinters(resp) ELSE <<>>

\* str.lower() on the printer names of the model.
lower(n) == IF n = printer_name THEN "dymo labelwriter 4xl" ELSE n

NameEqualsNoCase(a, b) == lower(a) = lower(b)

\* Line 206: printer['Name'] == printer_name
NameEquals(a, b) == a = b

\* for printer in printers: if printer['Name'] == printer_name: return
\* printer['IsConnected'];  return False
\* Line 209: no printer of that name.
NotFoundResult_True == TRUE

NotFoundResult == FALSE

RECURSIVE ScanPrinters(_, _, _)
ScanPrinters(prs, name, i) ==
    IF i > Len(prs) THEN NotFoundResult
    ELSE IF NameEquals(prs[i].Name, name) THEN prs[i].IsConnected
         ELSE ScanPrinters(prs, name, i + 1)

get_printer_connected_scan(prs, name) == ScanPrinters(prs, name, 1)

(***************************************************************************)
(* Template Renderer (the pure parts)                                      *)
(***************************************************************************)
\* dict.get(key, default)
Get(d, key, default) == IF key \in DOMAIN d THEN d[key] ELSE default

\* d[key] = value
Put(d, key, value) ==
    [k \in DOMAIN d \cup {key} |-> IF k = key THEN value ELSE d[k]]

NA == <<"N/A">>

\* Lines 143-148: six str.replace calls, one after the other.
Substitute(xml, data, status, date) ==
    LET x1 == str_replace(xml, Tok("SerialNumber"), Get(data, "serial_number", NA))
        x2 == str_replace(x1, Tok("ModelNumber"), Get(data, "model_number", NA))
        x3 == str_replace(x2, Tok("FirmwareVersion"), Get(data, "firmware_version", NA))
        x4 == str_replace(x3, Tok("ManufacturingDate"), date)
        x5 == str_replace(x4, Tok("TestStatus"), <<status>>)
        x6 == str_replace(x5, Tok("BarcodeSN"), Get(data, "serial_number", NA))
    IN  x6

\* Lines 150-158 with the line of a field left out when the field is absent.
QRContent_SkipsAbsent(data, status, date) ==
    (IF "serial_number" \in DOMAIN data
     THEN <<"Serial: ">> \o data["serial_number"] \o <<"\n">> ELSE <<>>)
    \o (IF "model_number" \in DOMAIN data
        THEN <<"Model: ">> \o data["model_number"] \o <<"\n">> ELSE <<>>)
    \o <<"Date: ">> \o date
    \o <<"\n", "Status: ", status>>
    \o (IF "firmware_version" \in DOMAIN data
        THEN <<"\n", "FW: ">> \o data["firmware_version"] ELSE <<>>)
    \o (IF "first_failed_test" \in DOMAIN data
        THEN <<"\n", "First Failed Test: ">> \o data["first_failed_test"]
        ELSE <<>>)

\* Lines 150-158: the f-string.
QRContent(data, status, date) ==
    <<"Serial: ">> \o Get(data, "serial_number", NA)
    \o <<"\n", "Model: ">> \o Get(data, "model_number", NA)
    \o <<"\n", "Date: ">> \o date
    \o <<"\n", "Status: ", status>>
    \o <<"\n", "FW: ">> \o Get(data, "firmware_version", NA)
    \o <<"\n", "First Failed Test: ">> \o Get(data, "first_failed_test", <<"None">>)

\* Lines 172-180: update the QR nodes and serialize.
UpdateQR(dom, txt) == tostring(SetQRText(dom, txt))

\* The ErrorRecord appended to session.plugin_errors.
ErrorRecord(message) == [plugin |-> plugin_name, error |-> message]

(***************************************************************************)
(* State                                                                   *)
(***************************************************************************)
VARIABLES
    pc,                 \* where the session is (hook / line of the pipeline)
    state,              \* the pipeline's state: Idle, Active, Skipped, Failed,
                        \* Done, or Raised when an exception left the hook
    label_should_print, \* config.label_should_print
    test_status,        \* config.test_status
    option,             \* config.option: the flags that are set
    workerinput,        \* hasattr(config, 'workerinput')
    label_data,         \* session.label_data
    plugin_errors,      \* session.plugin_errors
    exitstatus,         \* pytest_sessionfinish's argument
    testscollected,     \* session.testscollected
    stats,              \* terminalreporter.stats: number of passed / failed
    today,              \* the calendar day datetime.date.today() returns
    calls,              \* the requests sent (their URL path) and the package
                        \* files read so far, in order
    lookup_exc,         \* what the GetPrinters lookup raised
    response,           \* the <LabelWriterPrinter> elements of the response
    printers,           \* get_printers' return value
    is_connected,       \* get_printer_connected's return value
    template,           \* the packaged template as read
    read_exc,           \* what reading the template raised
    label_xml,          \* the local label_xml
    qr_content,         \* the local qr_content
    root,               \* the parsed document
    post_exc,           \* what the PrintLabel request raised
    labelXml,           \* the labelXml field of the PrintLabel request
    reports,            \* the names of the session's tests whose call phase
                        \* failed so far, in the order pytest reported them
    printed,            \* the DYMO web service: the processes whose
                        \* PrintLabel requests it has received, in order
    self,               \* the process that is running (0: the coordinator)
    saved               \* the other processes of the session, each as it
                        \* was when it last ran

vars == <<pc, state, label_should_print, test_status, option, workerinput,
          label_data, plugin_errors, exitstatus, testscollected, stats, today,
          calls, lookup_exc, response, printers, is_connected, template,
          read_exc, label_xml, qr_content, root, post_exc, labelXml,
          reports, printed, self, saved>>

configVars == <<label_should_print, option, workerinput>>
hostVars == <<exitstatus, testscollected, stats>>
lookupVars == <<lookup_exc, response, printers, is_connected>>
renderVars == <<template, read_exc, label_xml, qr_content, root>>
submitVars == <<post_exc, labelXml>>
schedVars == <<printed, self, saved>>

\* The steps of pytest_sessionfinish.
PipelinePcs == {"get_printers", "scan", "connected", "guards", "read_template",
                "substitute", "qr_content", "parse", "update_qr", "post"}

\* The steps from the template read on.
RenderPcs == {"read_template", "substitute", "qr_content", "parse",
              "update_qr", "post"}

Init ==
    /\ pc = "configure"
    /\ state = "Idle"
    /\ label_should_print = FALSE
    /\ test_status = None
    /\ option = {}
    /\ workerinput = FALSE
    /\ label_data = <<>>
    /\ plugin_errors = <<>>
    /\ exitstatus = 0
    /\ testscollected = 0
    /\ stats = [passed |-> 0, failed |-> 0]
    /\ today = 1
    /\ calls = <<>>
    /\ lookup_exc = NoException
    /\ response = <<>>
    /\ printers = <<>>
    /\ is_connected = FALSE
    /\ template = <<>>
    /\ read_exc = NoException
    /\ label_xml = <<>>
    /\ qr_content = <<>>
    /\ root = <<>>
    /\ post_exc = NoException
    /\ labelXml = <<>>
    /\ reports = <<>>
    /\ printed = <<>>
    /\ self = 0
    /\ saved = <<>>

(***************************************************************************)
(* The hooks before the pipeline                                           *)
(***************************************************************************)
\* Lines 28-34.  The command line decides --print-label, the non-test flags
\* and whether this is a pytest-xdist worker.
pytest_configure ==
    /\ pc = "configure"
    /\ \E p \in BOOLEAN, o \in Options, w \in BOOLEAN :
          /\ label_should_print' = p
          /\ option' = o
          /\ workerinput' = w
    /\ test_status' = "PASS"
    /\ pc' = "sessionstart"
    /\ UNCHANGED <<reports, schedVars>>
    /\ UNCHANGED <<state, label_data, plugin_errors, hostVars, today, calls,
                   lookupVars, renderVars, submitVars>>

\* Lines 36-38.
pytest_sessionstart ==
    /\ pc = "sessionstart"
    /\ label_data' = <<>>
    /\ plugin_errors' = <<>>
    /\ pc' = "running"
    /\ UNCHANGED <<reports, schedVars>>
    /\ UNCHANGED <<state, configVars, test_status, hostVars, today, calls,
                   lookupVars, renderVars, submitVars>>

\* Lines 40-42: a test takes the label_data fixture and stores a field.
label_data_fixture ==
    /\ pc = "running"
    /\ \E key \in MetadataKeys : \E value \in LabelValues[key] :
          label_data' = Put(label_data, key, value)
    /\ UNCHANGED <<reports, schedVars>>
    /\ UNCHANGED <<pc, state, configVars, test_status, plugin_errors, hostVars,
                   today, calls, lookupVars, renderVars, submitVars>>

\* Lines 44-54 without the test of line 53: every failing test stores its
\* name.
makereport_Overwrite(name, own, when, failed) ==
    IF own THEN UNCHANGED <<test_status, label_data>>
    ELSE IF when = "call" /\ failed
         THEN /\ test_status' = "FAIL"
              /\ label_data' = Put(label_data, "first_failed_test", <<name>>)
         ELSE UNCHANGED <<test_status, label_data>>

\* Lines 44-54 with the outcome of every call phase stored as the status.
makereport_Resets(name, own, when, failed) ==
    IF own THEN UNCHANGED <<test_status, label_data>>
    ELSE IF when = "call"
         THEN /\ test_status' = IF failed THEN "FAIL" ELSE "PASS"
              /\ label_data' =
                    IF failed /\ "first_failed_test" \notin DOMAIN label_data
                    THEN Put(label_data, "first_failed_test", <<name>>)
                    ELSE label_data
         ELSE UNCHANGED <<test_status, label_data>>

\* Lines 44-54 with the status set for a failure in any phase and the name
\* stored for the call phase only.
makereport_AnyPhase(name, own, when, failed) ==
    IF own THEN UNCHANGED <<test_status, label_data>>
    ELSE IF failed
         THEN /\ test_status' = "FAIL"
              /\ label_data' =
                    IF when = "call" /\ "first_failed_test" \notin DOMAIN label_data
                    THEN Put(label_data, "first_failed_test", <<name>>)
                    ELSE label_data
         ELSE UNCHANGED <<test_status, label_data>>

\* Lines 44-54, for one report: own is "the item is one of the plugin's own
\* tests", when the phase, failed is "call.excinfo is not None".
makereport(name, own, when, failed) ==
    IF own THEN UNCHANGED <<test_status, label_data>>
    ELSE IF when = "call" /\ failed
         THEN /\ test_status' = "FAIL"
              /\ label_data' =
                    IF "first_failed_test" \notin DOMAIN label_data
                    THEN Put(label_data, "first_failed_test", <<name>>)
                    ELSE label_data
         ELSE UNCHANGED <<test_status, label_data>>

\* pytest reports the call phase of one of the session's tests as failed.
CallFailed(own, when, failed) == ~own /\ when = "call" /\ failed

pytest_runtest_makereport ==
    /\ pc = "running"
    /\ \E name \in TestNames, own \in BOOLEAN,
          when \in {"setup", "call", "teardown"}, failed \in BOOLEAN :
          /\ CallFailed(own, when, failed) => Len(reports) < MaxFailures
          /\ makereport(name, own, when, failed)
          /\ reports' = IF CallFailed(own, when, failed)
                        THEN Append(reports, name) ELSE reports
    /\ UNCHANGED schedVars
    /\ UNCHANGED <<pc, state, configVars, plugin_errors, hostVars, today,
                   calls, lookupVars, renderVars, submitVars>>

\* The clock: the day changes while the label is rendered and submitted
\* (datetime.date.today() is read at lines 146 and 155 only).
Tick ==
    /\ pc \in RenderPcs
    /\ today < MaxDay
    /\ today' = today + 1
    /\ UNCHANGED <<reports, schedVars>>
    /\ UNCHANGED <<pc, state, configVars, test_status, label_data,
                   plugin_errors, hostVars, calls, lookupVars, renderVars,
                   submitVars>>

(***************************************************************************)
(* pytest_sessionfinish: the run pipeline                                  *)
(***************************************************************************)
\* return: control goes back to pytest, the pipeline ends in state s.
Return(s) ==
    /\ pc' = "returned"
    /\ state' = s

\* An exception no except clause catches leaves pytest_sessionfinish.
Propagate ==
    /\ pc' = "returned"
    /\ state' = "Raised"

\* session.plugin_errors.append({'plugin': __name__, 'error': error_message})
AppendErrorTwice(message) ==
    plugin_errors' = plugin_errors \o <<ErrorRecord(message), ErrorRecord(message)>>

\* The append written as an assignment of a new list.
AppendError_Overwrite(message) ==
    plugin_errors' = <<ErrorRecord(message)>>

AppendError(message) ==
    plugin_errors' = Append(plugin_errors, ErrorRecord(message))

\* Line 61: if not config.label_should_print
PrintDisabled_Unchecked == FALSE

PrintDisabled == ~label_should_print

\* Lines 56-62: pytest calls the hook with the exit status; the host has
\* counted the collected tests and the passed and failed reports.
pytest_sessionfinish ==
    /\ pc = "running"
    /\ \E e \in ExitCodes, c \in 0..1, st \in Stats :
          /\ exitstatus' = e
          /\ testscollected' = c
          /\ stats' = st
    /\ IF PrintDisabled
       THEN Return("Skipped")
       ELSE pc' = "get_printers" /\ state' = "Active"
    /\ UNCHANGED <<reports, schedVars>>
    /\ UNCHANGED <<configVars, test_status, label_data, plugin_errors, today,
                   calls, lookupVars, renderVars, submitVars>>

\* Lines 211-233, called from line 204: the GetPrinters request, answered by
\* one of the responses R or failing with an exception.
GetPrinters(R) ==
    /\ pc = "get_printers"
    /\ calls' = Append(calls, DYMO_GET_PRINTERS)
    /\ \E exc \in {NoException} \cup GetPrintersRaises :
       \E resp \in IF exc = NoException THEN R ELSE {<<>>} :
          /\ lookup_exc' = exc
          /\ response' = resp
          /\ IF exc = NoException \/ exc \in GetPrintersHandlers
             THEN /\ printers' = get_printers_result(exc, resp)
                  /\ pc' = "scan"
                  /\ UNCHANGED state
             ELSE /\ printers' = printers
                  /\ Propagate
    /\ UNCHANGED <<reports, schedVars>>
    /\ UNCHANGED <<configVars, test_status, label_data, plugin_errors,
                   hostVars, today, is_connected, renderVars, submitVars>>

get_printers == GetPrinters(SessionResponses)

\* Lines 203-209, and the assignment of line 64.
get_printer_connected ==
    /\ pc = "scan"
    /\ is_connected' = get_printer_connected_scan(printers, printer_name)
    /\ pc' = "connected"
    /\ UNCHANGED <<reports, schedVars>>
    /\ UNCHANGED <<state, configVars, test_status, label_data, plugin_errors,
                   hostVars, today, calls, lookup_exc, response, printers,
                   renderVars, submitVars>>

NotConnectedMessage == <<"The printer '", printer_name, "' is not connected.">>

\* Line 74: return  # Exit early if printer is not connected
ExitEarly_Missing == FALSE

ExitEarly == TRUE

\* Lines 65-74.  The locals of get_printers / get_printer_connected are gone.
check_connected ==
    /\ pc = "connected"
    /\ response' = <<>>
    /\ printers' = <<>>
    /\ IF is_connected
       THEN /\ pc' = "guards"
            /\ UNCHANGED <<state, plugin_errors>>
       ELSE /\ AppendError(NotConnectedMessage)
            /\ IF ExitEarly THEN Return("Failed")
               ELSE pc' = "guards" /\ UNCHANGED state
    /\ UNCHANGED <<reports, schedVars>>
    /\ UNCHANGED <<configVars, test_status, label_data, hostVars, today, calls,
                   lookup_exc, is_connected, renderVars, submitVars>>

\* Line 89.
NonTestMode == option \cap non_test_flags # {}
\* Line 99.
ExitStatusOk == exitstatus \in {0, 1}
\* Lines 111-118.
num_passed == stats.passed
num_failed == stats.failed

\* Lines 76-120: the five checks that follow the connectivity check.
check_guards ==
    /\ pc = "guards"
    /\ IF NonTestMode THEN Return("Skipped")
       ELSE IF workerinput THEN Return("Skipped")
       ELSE IF ~ExitStatusOk THEN Return("Skipped")
       ELSE IF testscollected = 0 THEN Return("Skipped")
       ELSE IF num_failed + num_passed = 0 THEN Return("Skipped")
       ELSE pc' = "read_template" /\ UNCHANGED state
    /\ UNCHANGED <<reports, schedVars>>
    /\ UNCHANGED <<configVars, test_status, label_data, plugin_errors,
                   hostVars, today, calls, lookupVars, renderVars, submitVars>>

NotFoundMessage ==
    <<"Label template '", LABEL_TEMPLATE_FILENAME, "' not found in the package.">>

\* Lines 122-140.
read_template ==
    /\ pc = "read_template"
    /\ calls' = Append(calls, LABEL_TEMPLATE_FILENAME)
    /\ \E exc \in {NoException} \cup ReadTextRaises :
       \E t \in IF exc = NoException THEN Templates ELSE {<<>>} :
          /\ read_exc' = exc
          /\ template' = t
          /\ label_xml' = t
          /\ IF exc = NoException
             THEN /\ pc' = "substitute"
                  /\ UNCHANGED <<state, plugin_errors>>
             ELSE IF exc \in ReadTextHandlers
             THEN /\ AppendError(IF exc = "FileNotFoundError"
                                 THEN NotFoundMessage
                                 ELSE <<"Error reading label template: ", exc>>)
                  /\ Return("Failed")
             ELSE /\ Propagate
                  /\ UNCHANGED plugin_errors
    /\ UNCHANGED <<reports, schedVars>>
    /\ UNCHANGED <<configVars, test_status, label_data, hostVars, today,
                   lookupVars, qr_content, root, submitVars>>

\* Lines 142-148.
substitute ==
    /\ pc = "substitute"
    /\ label_xml' = Substitute(label_xml, label_data, test_status, isoformat(today))
    /\ pc' = "qr_content"
    /\ UNCHANGED <<reports, schedVars>>
    /\ UNCHANGED <<state, configVars, test_status, label_data, plugin_errors,
                   hostVars, today, calls, lookupVars, template, read_exc,
                   qr_content, root, submitVars>>

\* Lines 150-158.
build_qr_content ==
    /\ pc = "qr_content"
    /\ qr_content' = QRContent(label_data, test_status, isoformat(today))
    /\ pc' = "parse"
    /\ UNCHANGED <<reports, schedVars>>
    /\ UNCHANGED <<state, configVars, test_status, label_data, plugin_errors,
                   hostVars, today, calls, lookupVars, template, read_exc,
                   label_xml, root, submitVars>>

\* Lines 160-170.
parse_label ==
    /\ pc = "parse"
    /\ LET r == fromstring(label_xml) IN
       IF ~IsParseFailure(r)
       THEN /\ root' = r
            /\ pc' = "update_qr"
            /\ UNCHANGED <<state, plugin_errors>>
       ELSE IF XMLSyntaxError \in ParseHandlers
       THEN /\ AppendError(<<"Failed to parse label XML: ", XMLSyntaxError>>)
            /\ Return("Failed")
            /\ UNCHANGED root
       ELSE /\ Propagate
            /\ UNCHANGED <<root, plugin_errors>>
    /\ UNCHANGED <<reports, schedVars>>
    /\ UNCHANGED <<configVars, test_status, label_data, hostVars, today, calls,
                   lookupVars, template, read_exc, label_xml, qr_content,
                   submitVars>>

\* Lines 172-180.
update_qr ==
    /\ pc = "update_qr"
    /\ label_xml' = UpdateQR(root, qr_content)
    /\ pc' = "post"
    /\ UNCHANGED <<reports, schedVars>>
    /\ UNCHANGED <<state, configVars, test_status, label_data, plugin_errors,
                   hostVars, today, calls, lookupVars, template, read_exc,
                   qr_content, root, submitVars>>

\* Lines 182-201: the PrintLabel request.
post_label ==
    /\ pc = "post"
    /\ calls' = Append(calls, DYMO_PRINT_LABEL)
    /\ labelXml' = label_xml
    /\ printed' = Append(printed, self)
    /\ \E exc \in {NoException} \cup PostRaises :
          /\ post_exc' = exc
          /\ IF exc = NoException
             THEN /\ Return("Done")
                  /\ UNCHANGED plugin_errors
             ELSE IF exc \in PostHandlers
             THEN /\ AppendError(<<"Failed to print label: ", exc>>)
                  /\ Return("Failed")
             ELSE /\ Propagate
                  /\ UNCHANGED plugin_errors
    /\ UNCHANGED <<reports, self, saved>>
    /\ UNCHANGED <<configVars, test_status, label_data, hostVars, today,
                   lookupVars, renderVars>>

Next ==
    \/ pytest_configure
    \/ pytest_sessionstart
    \/ label_data_fixture
    \/ pytest_runtest_makereport
    \/ pytest_sessionfinish
    \/ Tick
    \/ get_printers
    \/ get_printer_connected
    \/ check_connected
    \/ check_guards
    \/ read_template
    \/ substitute
    \/ build_qr_content
    \/ parse_label
    \/ update_qr
    \/ post_label

Spec == Init /\ [][Next]_vars

(***************************************************************************)
(* The Printer Directory Client on every response of up to MaxPrinters     *)
(* printers: a session with --print-label at the call of line 64.          *)
(***************************************************************************)
DirectoryInit ==
    /\ pc = "get_printers"
    /\ state = "Active"
    /\ label_should_print = TRUE
    /\ test_status = "PASS"
    /\ option = {"verbose"}
    /\ workerinput = FALSE
    /\ label_data = <<>>
    /\ plugin_errors = <<>>
    /\ exitstatus = 0
    /\ testscollected = 1
    /\ stats = [passed |-> 1, failed |-> 0]
    /\ today = 1
    /\ calls = <<>>
    /\ lookup_exc = NoException
    /\ response = <<>>
    /\ printers = <<>>
    /\ is_connected = FALSE
    /\ template = <<>>
    /\ read_exc = NoException
    /\ label_xml = <<>>
    /\ qr_content = <<>>
    /\ root = <<>>
    /\ post_exc = NoException
    /\ labelXml = <<>>
    /\ reports = <<>>
    /\ printed = <<>>
    /\ self = 0
    /\ saved = <<>>

list_printers == GetPrinters(Responses)

DirectoryNext ==
    \/ list_printers
    \/ get_printer_connected
    \/ check_connected

DirectorySpec == DirectoryInit /\ [][DirectoryNext]_vars

(***************************************************************************)
(* The session's error log shared with other plugins: session.plugin_errors *)
(* is an attribute of the pytest session, and a plugin that follows the    *)
(* same convention appends its own records while the tests run.            *)
(***************************************************************************)
OtherRecord == [plugin |-> "other_plugin", error |-> <<"other error">>]

other_plugin_error ==
    /\ pc = "running"
    /\ Count(plugin_errors, OtherRecord) < MaxOtherErrors
    /\ plugin_errors' = Append(plugin_errors, OtherRecord)
    /\ UNCHANGED <<pc, state, configVars, test_status, label_data, hostVars,
                   today, calls, lookupVars, renderVars, submitVars, reports,
                   schedVars>>

SharedLogNext ==
    \/ Next
    \/ other_plugin_error

SharedLogSpec == Init /\ [][SharedLogNext]_vars

(***************************************************************************)
(* A session run by pytest-xdist: the coordinating process 0 and           *)
(* MaxWorkers worker processes, each executing pytest_sessionfinish at its *)
(* own session end.  Every process has its own config and session; what    *)
(* they share is the DYMO web service.  One process runs at a time and the *)
(* scheduler may switch to another one between any two steps.              *)
(***************************************************************************)
Procs == 0..MaxWorkers

\* The running process: its config, its session and its locals.
Here ==
    [pc |-> pc,
     state |-> state,
     label_should_print |-> label_should_print,
     test_status |-> test_status,
     option |-> option,
     workerinput |-> workerinput,
     label_data |-> label_data,
     plugin_errors |-> plugin_errors,
     exitstatus |-> exitstatus,
     testscollected |-> testscollected,
     stats |-> stats,
     calls |-> calls,
     lookup_exc |-> lookup_exc,
     response |-> response,
     printers |-> printers,
     is_connected |-> is_connected,
     template |-> template,
     read_exc |-> read_exc,
     label_xml |-> label_xml,
     qr_content |-> qr_content,
     root |-> root,
     post_exc |-> post_exc,
     labelXml |-> labelXml,
     reports |-> reports]

\* The entry of saved for the process that is running.
OnCpu == [pc |-> "on_cpu"]

\* A process at line 64 of pytest_sessionfinish, started with --print-label
\* after a session with one passed test; w is hasattr(config, 'workerinput').
EntryContext(w) ==
    [pc |-> "get_printers",
     state |-> "Active",
     label_should_print |-> TRUE,
     test_status |-> "PASS",
     option |-> {"verbose"},
     workerinput |-> w,
     label_data |-> <<>>,
     plugin_errors |-> <<>>,
     exitstatus |-> 0,
     testscollected |-> 1,
     stats |-> [passed |-> 1, failed |-> 0],
     calls |-> <<>>,
     lookup_exc |-> NoException,
     response |-> <<>>,
     printers |-> <<>>,
     is_connected |-> FALSE,
     template |-> <<>>,
     read_exc |-> NoException,
     label_xml |-> <<>>,
     qr_content |-> <<>>,
     root |-> <<>>,
     post_exc |-> NoException,
     labelXml |-> <<>>,
     reports |-> <<>>]

Load(c) ==
    /\ pc' = c.pc
    /\ state' = c.state
    /\ label_should_print' = c.label_should_print
    /\ test_status' = c.test_status
    /\ option' = c.option
    /\ workerinput' = c.workerinput
    /\ label_data' = c.label_data
    /\ plugin_errors' = c.plugin_errors
    /\ exitstatus' = c.exitstatus
    /\ testscollected' = c.testscollected
    /\ stats' = c.stats
    /\ calls' = c.calls
    /\ lookup_exc' = c.lookup_exc
    /\ response' = c.response
    /\ printers' = c.printers
    /\ is_connected' = c.is_connected
    /\ template' = c.template
    /\ read_exc' = c.read_exc
    /\ label_xml' = c.label_xml
    /\ qr_content' = c.qr_content
    /\ root' = c.root
    /\ post_exc' = c.post_exc
    /\ labelXml' = c.labelXml
    /\ reports' = c.reports

\* The scheduler takes the running process off and puts process p on.
Switch(p) ==
    /\ p # self
    /\ self' = p
    /\ saved' = [saved EXCEPT ![self] = Here, ![p] = OnCpu]
    /\ Load(saved[p])
    /\ UNCHANGED <<today, printed>>

context_switch == \E p \in Procs : Switch(p)

ParallelInit ==
    /\ self = 0
    /\ saved = [p \in Procs |-> IF p = 0 THEN OnCpu ELSE EntryContext(TRUE)]
    /\ printed = <<>>
    /\ today = 1
    /\ pc = EntryContext(FALSE).pc
    /\ state = EntryContext(FALSE).state
    /\ label_should_print = EntryContext(FALSE).label_should_print
    /\ test_status = EntryContext(FALSE).test_status
    /\ option = EntryContext(FALSE).option
    /\ workerinput = EntryContext(FALSE).workerinput
    /\ label_data = EntryContext(FALSE).label_data
    /\ plugin_errors = EntryContext(FALSE).plugin_errors
    /\ exitstatus = EntryContext(FALSE).exitstatus
    /\ testscollected = EntryContext(FALSE).testscollected
    /\ stats = EntryContext(FALSE).stats
    /\ calls = EntryContext(FALSE).calls
    /\ lookup_exc = EntryContext(FALSE).lookup_exc
    /\ response = EntryContext(FALSE).response
    /\ printers = EntryContext(FALSE).printers
    /\ is_connected = EntryContext(FALSE).is_connected
    /\ template = EntryContext(FALSE).template
    /\ read_exc = EntryContext(FALSE).read_exc
    /\ label_xml = EntryContext(FALSE).label_xml
    /\ qr_content = EntryContext(FALSE).qr_content
    /\ root = EntryContext(FALSE).root
    /\ post_exc = EntryContext(FALSE).post_exc
    /\ labelXml = EntryContext(FALSE).labelXml
    /\ reports = EntryContext(FALSE).reports

ParallelNext ==
    \/ context_switch
    \/ get_printers
    \/ get_printer_connected
    \/ check_connected
    \/ check_guards
    \/ read_template
    \/ substitute
    \/ build_qr_content
    \/ parse_label
    \/ update_qr
    \/ post_label

ParallelSpec == ParallelInit /\ [][ParallelNext]_vars

(***************************************************************************)
(* Properties                                                              *)
(***************************************************************************)
Returned == pc = "returned"

\* The six guards of the pipeline: printing enabled, not a non-executing
\* mode, not a worker, exit status 0 or 1, a test collected, an outcome
\* recorded.
GuardsPass ==
    /\ label_should_print
    /\ ~NonTestMode
    /\ ~workerinput
    /\ ExitStatusOk
    /\ testscollected # 0
    /\ num_failed + num_passed # 0

\* C1: whatever the lookup, the template read, the parse of the label and
\* the submission raise, no exception leaves pytest_sessionfinish: the
\* pipeline never is in state Raised, and when it has returned it is in
\* exactly one of Skipped, Failed and Done.
C1_NoExceptionLeavesThePipeline ==
    /\ state # "Raised"
    /\ Returned => state \in {"Skipped", "Failed", "Done"}
    /\ ~Returned => state \in {"Idle", "Active"}

\* C1 witness: the GetPrinters response did not parse and the pipeline
\* returned, Failed.
C1_Witness ==
    /\ Returned
    /\ lookup_exc = XMLSyntaxError
    /\ state = "Failed"

\* C2: a run that ends in Failed has appended exactly one ErrorRecord: the
\* log is empty from session start until the pipeline returns, and holds one
\* record when it has returned Failed.
C2_FailedAppendsExactlyOne ==
    /\ pc \in {"running"} \cup PipelinePcs => plugin_errors = <<>>
    /\ state = "Failed" => Returned /\ Len(plugin_errors) = 1

\* C2 witness: the template was not found, the run Failed with its record.
C2_Witness ==
    /\ state = "Failed"
    /\ read_exc = "FileNotFoundError"
    /\ plugin_errors = <<ErrorRecord(NotFoundMessage)>>

\* C3: with --print-label off the pipeline never is past its entry, makes no
\* request and no file read, appends no ErrorRecord and returns Skipped.
C3_DisabledSkipsWithoutNetwork ==
    ~label_should_print =>
        /\ pc \notin PipelinePcs
        /\ calls = <<>>
        /\ plugin_errors = <<>>
        /\ Returned => state = "Skipped"

\* C3 witness: printing disabled, every other guard met, the run Skipped.
C3_Witness ==
    /\ Returned
    /\ ~label_should_print
    /\ ~NonTestMode /\ ~workerinput /\ ExitStatusOk
    /\ testscollected # 0 /\ num_failed + num_passed # 0
    /\ state = "Skipped"

\* C4 (the claim as stated): the six guards come before the connectivity
\* check.  A run in which one of them is unmet ends in Skipped, has sent no
\* GetPrinters request and has appended no ErrorRecord.
C4_GuardsBeforeConnectivity ==
    (Returned /\ ~GuardsPass) =>
        /\ state = "Skipped"
        /\ Count(calls, DYMO_GET_PRINTERS) = 0
        /\ plugin_errors = <<>>

\* C5: when the lookup fails (transport error, error status, response that
\* does not parse) get_printers returns [] and raises nothing,
\* get_printer_connected returns False, and the pipeline returns Failed with
\* the one record "not connected", having read no template and sent no
\* PrintLabel request.
C5_LookupFailureIsNotConnected ==
    lookup_exc # NoException =>
        /\ state # "Raised"
        /\ printers = <<>>
        /\ is_connected = FALSE
        /\ calls = <<DYMO_GET_PRINTERS>>
        /\ \/ pc \in {"scan", "connected"} /\ plugin_errors = <<>>
           \/ /\ Returned
              /\ state = "Failed"
              /\ plugin_errors = <<ErrorRecord(NotConnectedMessage)>>

\* C5 witness: the lookup failed with a transport error and the pipeline
\* has returned.
C5_Witness ==
    /\ Returned
    /\ lookup_exc = "ConnectionError"
    /\ state = "Failed"
    /\ plugin_errors = <<ErrorRecord(NotConnectedMessage)>>

\* C6: when the template is missing or cannot be read the pipeline returns
\* Failed with one record that describes it, and no PrintLabel request is
\* sent.
C6_MissingTemplateFails ==
    read_exc # NoException =>
        /\ Returned
        /\ state = "Failed"
        /\ plugin_errors =
              <<ErrorRecord(IF read_exc = "FileNotFoundError"
                            THEN NotFoundMessage
                            ELSE <<"Error reading label template: ", read_exc>>)>>
        /\ calls = <<DYMO_GET_PRINTERS, LABEL_TEMPLATE_FILENAME>>

\* C6 witness: the template could not be read (not a missing file).
C6_Witness ==
    /\ Returned
    /\ read_exc = "PermissionError"
    /\ state = "Failed"

\* The label was rendered: the template was read and the substituted text
\* parsed.
Rendered == read_exc = NoException /\ root # <<>>

\* C7: a run with all guards met, the printer connected, the label rendered
\* and the submission accepted ends in Done with an empty ErrorLog; and a run
\* ends in Done only if the connectivity check returned true, the label was
\* rendered and exactly one PrintLabel request was sent and succeeded.
C7_DoneIffAllSucceeded ==
    /\ (/\ Returned /\ GuardsPass /\ is_connected /\ Rendered
        /\ post_exc = NoException)
          => state = "Done" /\ plugin_errors = <<>>
    /\ state = "Done" =>
          /\ Returned
          /\ is_connected
          /\ Rendered
          /\ Count(calls, DYMO_PRINT_LABEL) = 1
          /\ post_exc = NoException
          /\ labelXml = label_xml
          /\ plugin_errors = <<>>

\* C7 witness: serial SN1, status FAIL, first failed test test_boot, the
\* printer connected, the submission accepted.
C7_Witness ==
    /\ state = "Done"
    /\ Get(label_data, "serial_number", NA) = <<"SN1">>
    /\ test_status = "FAIL"
    /\ Get(label_data, "first_failed_test", <<"None">>) = <<"test_boot">>
    /\ plugin_errors = <<>>

\* C8: at most one PrintLabel request per run, the last thing the pipeline
\* does: it is sent after the connectivity check returned true, the template
\* was read and the substituted text parsed, nothing follows it, and a
\* failed submission gives Failed with the one record that carries the
\* exception.
C8_SingleSubmissionLast ==
    /\ Count(calls, DYMO_PRINT_LABEL) <= 1
    /\ Count(calls, DYMO_PRINT_LABEL) = 1 =>
          /\ calls = <<DYMO_GET_PRINTERS, LABEL_TEMPLATE_FILENAME, DYMO_PRINT_LABEL>>
          /\ Returned
          /\ is_connected
          /\ Rendered
    /\ post_exc # NoException =>
          /\ Count(calls, DYMO_PRINT_LABEL) = 1
          /\ state = "Failed"
          /\ plugin_errors = <<ErrorRecord(<<"Failed to print label: ", post_exc>>)>>

\* C8 witness: the submission was refused with an error status.
C8_Witness ==
    /\ post_exc = "HTTPError"
    /\ state = "Failed"
    /\ Count(calls, DYMO_PRINT_LABEL) = 1

\* The records of the response that are named exactly name.
Named(resp, name) == {i \in 1..Len(resp) : resp[i].Name = name}

\* C9: get_printer_connected returns False for an empty list, for a list
\* with no record named exactly printer_name and for one whose records of
\* that name report disconnected; it returns True only if a record named
\* exactly printer_name reports IsConnected "True"; its answer is the report
\* of the first record of that name.
C9_IsConnectedExactName ==
    pc = "connected" =>
        LET N == Named(response, printer_name) IN
        /\ response = <<>> => ~is_connected
        /\ N = {} => ~is_connected
        /\ (\A i \in N : response[i].IsConnected # "True") => ~is_connected
        /\ is_connected => \E i \in N : response[i].IsConnected = "True"
        /\ N # {} => is_connected = (response[Min(N)].IsConnected = "True")

\* C9 witness: a printer whose name differs in case only is connected, the
\* target printer is absent: not connected.
C9_Witness ==
    /\ pc = "connected"
    /\ Named(response, printer_name) = {}
    /\ \E i \in 1..Len(response) :
          /\ response[i].Name = "dymo labelwriter 4xl"
          /\ response[i].IsConnected = "True"
    /\ ~is_connected

\* The six placeholder tokens and the text each stands for.
TokenNames == {"SerialNumber", "ModelNumber", "FirmwareVersion",
               "ManufacturingDate", "TestStatus", "BarcodeSN"}

TokenValue(t, data, status, date) ==
    CASE t = "SerialNumber"      -> Get(data, "serial_number", NA)
      [] t = "ModelNumber"       -> Get(data, "model_number", NA)
      [] t = "FirmwareVersion"   -> Get(data, "firmware_version", NA)
      [] t = "ManufacturingDate" -> date
      [] t = "TestStatus"        -> <<status>>
      [] t = "BarcodeSN"         -> Get(data, "serial_number", NA)

\* The template with every occurrence of the six tokens replaced by the
\* literal value of its field ("N/A" for an absent one), the values left as
\* they are.
RECURSIVE LiteralRenderFrom(_, _, _, _, _)
LiteralRenderFrom(s, i, data, status, date) ==
    LET M == {j \in i..Len(s) : \E t \in TokenNames : MatchAt(s, Tok(t), j)} IN
    IF M = {} THEN SubSeq(s, i, Len(s))
    ELSE LET j == Min(M) IN
         SubSeq(s, i, j - 1)
         \o TokenValue(s[j + 1], data, status, date)
         \o LiteralRenderFrom(s, j + 3, data, status, date)

\* C10 (the claim as stated): for every label data the substituted label is
\* the template with each token replaced by the literal value of its field,
\* "N/A" for an absent one.
C10_LiteralValues ==
    pc = "qr_content" =>
        \E d \in 1..MaxDay :
            label_xml = LiteralRenderFrom(template, 1, label_data, test_status,
                                          isoformat(d))

\* The lines of a text: the pieces between its line breaks.
QRLines(q) ==
    LET NL == {i \in 1..Len(q) : q[i] = "\n"}
        cut(k) == IF k = 0 THEN 0
                  ELSE IF k > Cardinality(NL) THEN Len(q) + 1
                  ELSE CHOOSE i \in NL : Cardinality({j \in NL : j <= i}) = k
    IN  [k \in 1..(Cardinality(NL) + 1) |->
            SubSeq(q, cut(k - 1) + 1, cut(k) - 1)]

\* The value of a field of the label data as the label shows it.
Shown(data, key, absent) == IF key \in DOMAIN data THEN data[key] ELSE absent

\* The pipeline is past line 158: the QR payload is built.
QRBuilt == pc \in {"parse", "update_qr", "post"}

\* C11: the QR payload has exactly six lines, in the order Serial, Model,
\* Date, Status, Firmware, First Failed Test, whichever fields of the label
\* data are absent; an absent field reads "N/A", an absent first failed test
\* "None".
C11_SixLinesFixedOrder ==
    QRBuilt =>
        LET lines == QRLines(qr_content) IN
        /\ Len(lines) = 6
        /\ lines[1] = <<"Serial: ">> \o Shown(label_data, "serial_number", <<"N/A">>)
        /\ lines[2] = <<"Model: ">> \o Shown(label_data, "model_number", <<"N/A">>)
        /\ \E d \in 1..MaxDay : lines[3] = <<"Date: ">> \o isoformat(d)
        /\ lines[4] = <<"Status: ", test_status>>
        /\ lines[5] = <<"FW: ">> \o Shown(label_data, "firmware_version", <<"N/A">>)
        /\ lines[6] = <<"First Failed Test: ">>
                         \o Shown(label_data, "first_failed_test", <<"None">>)

\* C11 witness: the payload is built from label data with no field at all.
C11_Witness ==
    /\ pc = "parse"
    /\ DOMAIN label_data = {}
    /\ Len(QRLines(qr_content)) = 6

\* The positions of the tags (start and end) of a document, in order.
IsTag(e) == e.k # "text"

TagIdx(dom) ==
    LET at(i) == IsTag(dom[i]) IN SelectSeq([i \in 1..Len(dom) |-> i], at)

Tags(dom) == SelectSeq(dom, IsTag)

\* The character data that follows tag i up to the next tag: the text of
\* the element when i is its start tag, the tail of an element otherwise.
TextAfter(dom, i) ==
    LET stop == Min({j \in (i + 1)..(Len(dom) + 1) :
                        j = Len(dom) + 1 \/ dom[j].k # "text"})
    IN  [m \in 1..(stop - i - 1) |-> dom[i + m].v]

QRNodes(dom) == {i \in 1..Len(dom) : OnQRPath(dom, i)}

\* C12: in the label that is about to be submitted every node at
\* QRCodeObject/Data/DataString and QRCodeObject/TextDataHolder/Value has
\* the QR payload as its text, the elements are the ones of the parsed
\* document, every other text is as it was, and the update raised no error
\* and appended no record, also for a document without such nodes.
C12_QRUpdateTotalAndFramed ==
    pc = "post" =>
        LET out == fromstring(label_xml) IN
        /\ state = "Active"
        /\ plugin_errors = <<>>
        /\ ~IsParseFailure(out)
        /\ Tags(out) = Tags(root)
        /\ LET ri == TagIdx(root)
               oi == TagIdx(out)
           IN  \A k \in 1..Len(ri) :
                  TextAfter(out, oi[k]) =
                      IF OnQRPath(root, ri[k])
                      THEN qr_content
                      ELSE TextAfter(root, ri[k])

\* C12 witness: a document with four QR nodes, old text in two of them, and
\* DataString / Value elements that are not on the QR path.
C12_Witness ==
    /\ pc = "post"
    /\ template = TemplateTwoQR
    /\ Cardinality(QRNodes(root)) = 4
    /\ \E i \in 1..Len(label_xml) : MatchAt(label_xml, <<"keep">>, i)

\* C13: first_failed_test is the name of the first test whose call phase
\* failed and is unset while none has failed; once set, no step changes or
\* removes it; with no failed test the payload reads "First Failed Test:
\* None".
C13_FirstFailedWriteOnce ==
    /\ [](IF reports = <<>>
          THEN "first_failed_test" \notin DOMAIN label_data
          ELSE /\ "first_failed_test" \in DOMAIN label_data
               /\ label_data["first_failed_test"] = <<reports[1]>>)
    /\ []((QRBuilt /\ reports = <<>>) =>
             QRLines(qr_content)[6] = <<"First Failed Test: ", "None">>)
    /\ [][ "first_failed_test" \in DOMAIN label_data =>
             /\ "first_failed_test" \in DOMAIN label_data'
             /\ label_data'["first_failed_test"] = label_data["first_failed_test"]
        ]_vars

\* C13 witness: two tests failed, test_net first and test_boot after it, and
\* the label data names test_net.
C13_Witness ==
    /\ reports = <<"test_net", "test_boot">>
    /\ "first_failed_test" \in DOMAIN label_data
    /\ label_data["first_failed_test"] = <<"test_net">>

\* Text s holds the piece part somewhere.
Holds(s, part) == \E i \in 1..Len(s) : MatchAt(s, part, i)

\* C14: the status is PASS after configuration and until a test fails, FAIL
\* from the first failed test on; no step takes FAIL back; and a label
\* rendered after a test failed shows FAIL for [TestStatus] and on the
\* Status line of the payload.
C14_StatusFailIsSticky ==
    /\ [](pc = "sessionstart" => test_status = "PASS")
    /\ [](pc \notin {"configure", "sessionstart"} =>
             test_status = IF reports = <<>> THEN "PASS" ELSE "FAIL")
    /\ []((QRBuilt /\ reports # <<>>) =>
             /\ QRLines(qr_content)[4] = <<"Status: ", "FAIL">>
             /\ template = TemplateFull =>
                   Holds(label_xml, Elem("String", <<"FAIL">>)))
    /\ [][test_status = "FAIL" => test_status' = "FAIL"]_vars

\* C14 witness: test_boot failed and the packaged label was rendered with
\* FAIL.
C14_Witness ==
    /\ pc = "parse"
    /\ reports = <<"test_boot">>
    /\ test_status = "FAIL"
    /\ template = TemplateFull
    /\ Holds(label_xml, Elem("String", <<"FAIL">>))

\* C18: from session start on the status is FAIL exactly when a first
\* failed test is recorded, and the payload of a label never reads Status
\* PASS with a named first failed test nor Status FAIL with "First Failed
\* Test: None".
C18_StatusMatchesFirstFailed ==
    /\ pc \notin {"configure", "sessionstart"} =>
          (test_status = "FAIL" <=> "first_failed_test" \in DOMAIN label_data)
    /\ (QRBuilt \/ state = "Done") =>
          LET lines == QRLines(qr_content) IN
          (lines[4] = <<"Status: ", "FAIL">>
              <=> lines[6] # <<"First Failed Test: ", "None">>)
    /\ state = "Done" =>
          LET out == fromstring(labelXml) IN
          \A k \in QRNodes(out) : TextAfter(out, k) = qr_content

\* C18 witness: a label was submitted for a session in which test_net
\* failed in its call phase.
C18_Witness ==
    /\ state = "Done"
    /\ test_status = "FAIL"
    /\ QRLines(qr_content)[6] = <<"First Failed Test: ", "test_net">>
    /\ QRNodes(root) # {}

\* C19 (the claim as stated): the label carries one date.  When the payload
\* is built there is a day d such that the substituted text shows d for
\* [ManufacturingDate] and the Date line of the payload reads d, whatever
\* the clock does during the run.
C19_SingleManufacturingDate ==
    pc \in {"parse", "update_qr"} =>
        \E d \in 1..MaxDay :
            /\ label_xml = Substitute(template, label_data, test_status, isoformat(d))
            /\ QRLines(qr_content)[3] = <<"Date: ">> \o isoformat(d)

\* The record of the parse of lines 160-170, which follows the substitution.
ReparseRecord == ErrorRecord(<<"Failed to parse label XML: ", XMLSyntaxError>>)

\* C17 (the claim as stated): the template is parsed before anything is
\* substituted.  Once the substitution was performed the template is known
\* to be well formed; a run on a template that is not well formed fails with
\* the label text still the template, nothing substituted, and its failure
\* is not the failure of the parse that follows the substitution.
C17_ParseBeforeSubstitution ==
    /\ pc \in {"qr_content", "parse", "update_qr", "post"} =>
          ~IsParseFailure(fromstring(template))
    /\ (Returned /\ read_exc = NoException /\ template # <<>>
           /\ IsParseFailure(fromstring(template))) =>
          /\ state = "Failed"
          /\ label_xml = template
          /\ plugin_errors # <<ReparseRecord>>

IsPrefix(a, b) == Len(a) <= Len(b) /\ SubSeq(b, 1, Len(a)) = a

\* C16: from session start on every step leaves the records of the log as
\* they are and in their order: the log before a step is a prefix of the log
\* after it.
C16_ErrorLogAppendOnly ==
    [][pc \notin {"configure", "sessionstart"} =>
          IsPrefix(plugin_errors, plugin_errors')]_vars

\* C16 witness: the log held another plugin's record when the pipeline
\* failed, and holds that record and the pipeline's behind it.
C16_Witness ==
    /\ Returned
    /\ state = "Failed"
    /\ Len(plugin_errors) = 2
    /\ plugin_errors[1] = OtherRecord
    /\ plugin_errors[2].plugin = plugin_name

\* Process p as it is now.
Proc(p) == IF p = self THEN Here ELSE saved[p]

\* C15 (the claim as stated): whatever the interleaving of the coordinating
\* process and the workers, every PrintLabel request the service receives
\* comes from the coordinating process, it receives at most one, and a
\* worker that has finished its pipeline has ended in Skipped.
C15_OnlyCoordinatorPrints ==
    /\ \A i \in 1..Len(printed) : ~Proc(printed[i]).workerinput
    /\ Len(printed) <= 1
    /\ \A p \in Procs :
          (Proc(p).workerinput /\ Proc(p).pc = "returned") =>
              Proc(p).state = "Skipped"

=============================================================================
